---------------------------- MODULE Spec2Model ----------------------------
(***************************************************************************)
(* A model of buildah's Builder record: its JSON persistence (Save,        *)
(* OpenBuilder), its lookup by path (OpenBuilderByPath) and the            *)
(* configuration updates of "buildah config" (updateConfig, configCmd).    *)
(*                                                                         *)
(* A Go string is a sequence of character tokens.  Two tokens stand for    *)
(* the bytes encoding/json treats specially: BadByte, a byte that is not   *)
(* valid UTF-8, and ReplRune, U+FFFD, which json.Marshal writes in its     *)
(* place.                                                                  *)
(***************************************************************************)
EXTENDS Integers, Sequences, FiniteSets, TLC

VARIABLES
    files,      \* container ID -> content of <container directory>/buildah.json
    meta,       \* container ID -> the Store's metadata blob (GetMetadata)
    tmp,        \* container ID -> content of AtomicWriteFile's temporary file
    builder,    \* the *Builder the caller holds
    ret,        \* how the last call returned
    call,       \* the last call and its arguments
    pc,         \* position of the running Save inside AtomicWriteFile
    seen        \* what the concurrent reader last read from the state file

vars == <<files, meta, tmp, builder, ret, call, pc, seen>>

-----------------------------------------------------------------------------
(* Constants of the package                                                *)

Package == <<"buildah">>
containerType == Package \o <<" 0.0.0">>
DefaultCreatedBy == <<"manual edits">>

BadByte == "\\xff"
ReplRune == "\\ufffd"

-----------------------------------------------------------------------------
(* The Builder struct                                                      *)

StringFields ==
    {"FromImage", "Container", "ContainerID", "MountPoint", "CreatedBy", "OS",
     "Architecture", "Maintainer", "User", "Workdir"}
BytesFields == {"Config", "Manifest"}
SliceFields == {"Mounts", "Links", "Env", "Cmd", "Entrypoint", "Volumes"}
MapFields == {"Annotations", "Labels", "Arg"}
ExposeFields == {"Expose"}
\* Fields whose Go zero value is nil.
RefFields == BytesFields \cup SliceFields \cup MapFields \cup ExposeFields
OmitEmptyFields == StringFields \cup RefFields
Fields == {"Type"} \cup OmitEmptyFields

\* The json struct tags.
JSONKey ==
    [f \in Fields |->
        CASE f = "Type" -> "type"
          [] f = "FromImage" -> "image"
          [] f = "Config" -> "config"
          [] f = "Manifest" -> "manifest"
          [] f = "Container" -> "container-name"
          [] f = "ContainerID" -> "container-id"
          [] f = "MountPoint" -> "mountpoint"
          [] f = "Mounts" -> "mounts"
          [] f = "Links" -> "links"
          [] f = "Annotations" -> "annotations"
          [] f = "CreatedBy" -> "created-by"
          [] f = "OS" -> "os"
          [] f = "Architecture" -> "arch"
          [] f = "Maintainer" -> "maintainer"
          [] f = "User" -> "user"
          [] f = "Workdir" -> "workingdir"
          [] f = "Env" -> "env"
          [] f = "Cmd" -> "cmd"
          [] f = "Entrypoint" -> "entrypoint"
          [] f = "Expose" -> "expose"
          [] f = "Labels" -> "labels"
          [] f = "Volumes" -> "volumes"
          [] f = "Arg" -> "arg"]

\* &Builder{}: every field at its zero value; nils names the fields of
\* reference type (slice, map) that are nil rather than empty.
ZeroBuilder ==
    [Type |-> <<>>, FromImage |-> <<>>, Config |-> <<>>, Manifest |-> <<>>,
     Container |-> <<>>, ContainerID |-> <<>>, MountPoint |-> <<>>,
     Mounts |-> <<>>, Links |-> <<>>, Annotations |-> <<>>, CreatedBy |-> <<>>,
     OS |-> <<>>, Architecture |-> <<>>, Maintainer |-> <<>>, User |-> <<>>,
     Workdir |-> <<>>, Env |-> <<>>, Cmd |-> <<>>, Entrypoint |-> <<>>,
     Expose |-> <<>>, Labels |-> <<>>, Volumes |-> <<>>, Arg |-> <<>>,
     nils |-> RefFields]

\* len(v) == 0, for a string, a slice and a map alike.
IsEmpty(v) == DOMAIN v = {}

-----------------------------------------------------------------------------
(* encoding/json                                                           *)

JString(s) == [t |-> "string", v |-> s]
JArray(a) == [t |-> "array", v |-> a]
JObject(m) == [t |-> "object", v |-> m]
JNumber == [t |-> "number", v |-> <<>>]
JNull == [t |-> "null", v |-> <<>>]
\* Bytes that are not JSON at all (the empty string among them).
JInvalid == [t |-> "invalid", v |-> <<>>]
\* No file.
Absent == [t |-> "absent", v |-> <<>>]

\* json.Marshal writes a string coerced to valid UTF-8: each invalid byte
\* becomes U+FFFD.
CoerceUTF8(s) == [i \in DOMAIN s |-> IF s[i] = BadByte THEN ReplRune ELSE s[i]]

ValidUTF8(s) == \A i \in DOMAIN s : s[i] # BadByte

\* The first byte of each character token, which orders strings as Go's
\* string comparison does.
CharCode(c) ==
    CASE c = BadByte -> 255
      [] c = ReplRune -> 239
      [] c = "a" -> 97
      [] c = "b" -> 98
      [] c = "c" -> 99
      [] c = "x" -> 120
      [] c = "y" -> 121
      [] c = "=" -> 61
      [] c = "1" -> 49
      [] c = " " -> 32
      [] c = "\"" -> 34
      [] c = "\\" -> 92
      [] OTHER -> 100

RECURSIVE StringLess(_, _)
StringLess(s, u) ==
    IF u = <<>> THEN FALSE
    ELSE IF s = <<>> THEN TRUE
    ELSE IF CharCode(Head(s)) # CharCode(Head(u))
         THEN CharCode(Head(s)) < CharCode(Head(u))
    ELSE StringLess(Tail(s), Tail(u))

\* A map is written with its keys sorted; keys that coerce to the same JSON
\* name are all written, and the decoder keeps the last of them.
LastKey(m, k) ==
    CHOOSE r \in DOMAIN m :
        /\ CoerceUTF8(r) = k
        /\ \A r2 \in DOMAIN m : CoerceUTF8(r2) = k => ~StringLess(r, r2)

EncodeStringMap(m) ==
    JObject([k \in {CoerceUTF8(r) : r \in DOMAIN m} |->
                JString(CoerceUTF8(m[LastKey(m, k)]))])

\* Every value of Expose (struct{}{} as set by updateConfig, or the
\* map[string]interface{} a decode leaves) is written as {}.
EncodeExpose(m) ==
    JObject([k \in {CoerceUTF8(r) : r \in DOMAIN m} |-> JObject(<<>>)])

\* A []byte is written as a base64 string.
Base64Encode(bs) == <<"base64">> \o bs
IsBase64(s) == s # <<>> /\ Head(s) = "base64"
Base64Decode(s) == Tail(s)

EncodeField(b, f) ==
    IF f \in BytesFields THEN JString(Base64Encode(b[f]))
    ELSE IF f \in SliceFields
         THEN JArray([i \in DOMAIN b[f] |-> JString(CoerceUTF8(b[f][i]))])
    ELSE IF f \in MapFields THEN EncodeStringMap(b[f])
    ELSE IF f \in ExposeFields THEN EncodeExpose(b[f])
    ELSE JString(CoerceUTF8(b[f]))

\* json.Marshal(b): "type" is always written, every other field only when
\* it is not empty (omitempty).  The unexported store field is not written.
MarshalFields(b) == {f \in Fields : f = "Type" \/ ~IsEmpty(b[f])}

Marshal(b) ==
    JObject([k \in {JSONKey[f] : f \in MarshalFields(b)} |->
                EncodeField(b, CHOOSE f \in Fields : JSONKey[f] = k)])

\* Whether a JSON value can be stored into field f.
FieldAccepts(f, j) ==
    \/ j.t = "null"
    \/ /\ f \in BytesFields
       /\ j.t = "string"
       /\ IsBase64(j.v)
    \/ /\ f \in SliceFields
       /\ j.t = "array"
       /\ \A i \in DOMAIN j.v : j.v[i].t = "string"
    \/ /\ f \in MapFields
       /\ j.t = "object"
       /\ \A k \in DOMAIN j.v : j.v[k].t = "string"
    \/ /\ f \in ExposeFields
       /\ j.t = "object"
    \/ /\ f \in StringFields \cup {"Type"}
       /\ j.t = "string"

DecodeField(f, j) ==
    IF j.t = "null" THEN <<>>
    ELSE IF f \in BytesFields THEN Base64Decode(j.v)
    ELSE IF f \in SliceFields THEN [i \in DOMAIN j.v |-> j.v[i].v]
    ELSE IF f \in MapFields THEN [k \in DOMAIN j.v |-> j.v[k].v]
    ELSE IF f \in ExposeFields THEN [k \in DOMAIN j.v |-> "map[string]interface{}"]
    ELSE j.v

\* json.Unmarshal(data, &b) with b := &Builder{}.  err: the call's error;
\* isnil: b is nil afterwards (the JSON literal null stores nil through the
\* **Builder); b: the struct b points to otherwise.
Unmarshal(data) ==
    IF data.t = "null" THEN [err |-> FALSE, isnil |-> TRUE, b |-> ZeroBuilder]
    ELSE IF data.t # "object" THEN [err |-> TRUE, isnil |-> FALSE, b |-> ZeroBuilder]
    ELSE LET present == {f \in Fields : JSONKey[f] \in DOMAIN data.v}
             bad == {f \in present : ~FieldAccepts(f, data.v[JSONKey[f]])}
             stored == {f \in present \ bad : data.v[JSONKey[f]].t # "null"}
         IN  [err |-> bad # {},
              isnil |-> FALSE,
              b |-> [f \in Fields \cup {"nils"} |->
                        IF f = "nils" THEN RefFields \ stored
                        ELSE IF f \in stored
                             THEN DecodeField(f, data.v[JSONKey[f]])
                             ELSE <<>>]]

-----------------------------------------------------------------------------
(* The Store and the caller's Builder pointer                              *)

\* store.Containers(), in the Store's enumeration order.
Containers == <<"c1", "c2", "c3">>
ContainerIDs == {Containers[i] : i \in DOMAIN Containers}
ContainerNames == [id \in ContainerIDs |-> "name-" \o id]

\* The containers a name or an ID designates (at most one).
Lookup(container) ==
    {id \in ContainerIDs : container = <<id>> \/ container = <<ContainerNames[id]>>}

\* A *Builder: nil, or a pointer to the struct v.
NilBuilder == [isnil |-> TRUE, v |-> ZeroBuilder]
Ptr(b) == [isnil |-> FALSE, v |-> b]

\* filepath.Abs: an absolute path is kept, a relative one is joined to the
\* working directory.
Getwd == <<"/">>
IsAbs(path) == path # <<>> /\ Head(path) = "/"
Abs(path) == IF IsAbs(path) THEN path ELSE Getwd \o path

-----------------------------------------------------------------------------
(* OpenBuilder, OpenBuilderByPath, Save                                    *)

\* A call's outcome: the error (or "nil", or "panic") and the *Builder.
Return(e, b) == [err |-> e, b |-> b]

IsContainerType(b) == b.Type = containerType

OpenBuilderNoTypeCheck(data) ==
    LET u == Unmarshal(data)
    IN  IF u.err THEN Return("UnmarshalError", NilBuilder)
        ELSE IF u.isnil THEN Return("panic", NilBuilder)
        ELSE Return("nil", Ptr(u.b))

\* OpenBuilder after the state file was read: decode and check the type.
DecodeState(data) ==
    LET u == Unmarshal(data)
    IN  IF u.err THEN Return("UnmarshalError", NilBuilder)
        ELSE IF u.isnil THEN Return("panic", NilBuilder)
        ELSE IF ~IsContainerType(u.b) THEN Return("NotBuildahContainer", NilBuilder)
        ELSE Return("nil", Ptr(u.b))

OpenBuilder(fs, container) ==
    IF Lookup(container) = {} THEN Return("ErrContainerUnknown", NilBuilder)
    ELSE LET id == CHOOSE c \in Lookup(container) : TRUE
         IN  IF fs[id] = Absent THEN Return("ReadFileError", NilBuilder)
             ELSE DecodeState(fs[id])

builderMatchesMountPoint(b, path) == b.MountPoint = path

builderMatchesPath(b, path) ==
    \/ b.MountPoint = path
    \/ \E i \in DOMAIN b.Mounts : b.Mounts[i] = path
    \/ \E i \in DOMAIN b.Links : b.Links[i] = path

\* One turn of the loop over the containers: "found" with the Builder,
\* "next", or the way the call ends there.
ScanOne(data, abs) ==
    LET u == Unmarshal(data)
    IN  IF u.err THEN Return("next", NilBuilder)
        ELSE IF u.isnil THEN Return("panic", NilBuilder)
        ELSE IF IsContainerType(u.b) /\ builderMatchesPath(u.b, abs)
             THEN Return("found", Ptr(u.b))
        ELSE Return("next", NilBuilder)

\* The loop from container i on; GetMetadata fails for the IDs in failing.
RECURSIVE ScanFrom(_, _, _, _)
ScanFrom(md, abs, failing, i) ==
    IF i > Len(Containers) THEN Return("ErrContainerUnknown", NilBuilder)
    ELSE IF Containers[i] \in failing THEN Return("GetMetadataError", NilBuilder)
    ELSE LET r == ScanOne(md[Containers[i]], abs)
         IN  IF r.err = "found" THEN Return("nil", r.b)
             ELSE IF r.err = "next" THEN ScanFrom(md, abs, failing, i + 1)
             ELSE r

OpenBuilderByPath(md, path, failing) == ScanFrom(md, Abs(path), failing, 1)

\* Save: the state file of b.ContainerID after the call, and the error.
\* writeFails: ioutils.AtomicWriteFile fails and leaves the file as it was.
SaveToMetadata(fs, md, b, writeFails) ==
    IF Lookup(b.ContainerID) = {}
    THEN [err |-> "ErrContainerUnknown", files |-> fs, meta |-> md]
    ELSE IF writeFails THEN [err |-> "WriteError", files |-> fs, meta |-> md]
    ELSE LET id == CHOOSE c \in Lookup(b.ContainerID) : TRUE
         IN  [err |-> "nil", files |-> fs,
              meta |-> [md EXCEPT ![id] = Marshal(b)]]

Save(fs, md, b, writeFails) ==
    IF Lookup(b.ContainerID) = {}
    THEN [err |-> "ErrContainerUnknown", files |-> fs, meta |-> md]
    ELSE IF writeFails THEN [err |-> "WriteError", files |-> fs, meta |-> md]
    ELSE LET id == CHOOSE c \in Lookup(b.ContainerID) : TRUE
         IN  [err |-> "nil", files |-> [fs EXCEPT ![id] = Marshal(b)],
              meta |-> md]

-----------------------------------------------------------------------------
(* cli.Context: the flags of "buildah config"                              *)

StringFlags == {"author", "created-by", "arch", "os", "user", "entrypoint",
                "cmd", "workingdir"}
StringSliceFlags == {"port", "env", "volume", "label", "annotation"}
FlagNames == StringFlags \cup StringSliceFlags

\* configurationFlags: only created-by declares a Value.
FlagDefault ==
    [f \in FlagNames |-> IF f = "created-by" THEN DefaultCreatedBy ELSE <<>>]

\* The context of a command line that gives the flags in DOMAIN given.
\* c.set is what c.IsSet answers; c.val what c.String and c.StringSlice
\* return, the flag's default when it was not given.
Context(given) ==
    [set |-> DOMAIN given,
     val |-> [f \in FlagNames |->
                IF f \in DOMAIN given THEN given[f] ELSE FlagDefault[f]]]

IsSetOrHasDefault(c, f) == f \in c.set \/ FlagDefault[f] # <<>>

IsSet(c, f) == f \in c.set

-----------------------------------------------------------------------------
(* shellwords.Parse                                                        *)

IsSpace(r) == r = " "

\* The parser's loop over line[i..], then its end: the last word is added
\* and an open escape or quote is the error "invalid command line string".
RECURSIVE ParseFrom(_, _, _, _, _, _, _)
ParseFrom(line, i, args, buf, escaped, doubleQuoted, singleQuoted) ==
    IF i > Len(line)
    THEN IF escaped \/ singleQuoted \/ doubleQuoted
         THEN [err |-> TRUE, args |-> <<>>]
         ELSE [err |-> FALSE,
               args |-> IF buf # <<>> THEN Append(args, buf) ELSE args]
    ELSE LET r == line[i]
         IN  IF escaped
             THEN ParseFrom(line, i + 1, args, Append(buf, r), FALSE,
                            doubleQuoted, singleQuoted)
             ELSE IF r = "\\"
             THEN IF singleQuoted
                  THEN ParseFrom(line, i + 1, args, Append(buf, r), FALSE,
                                 doubleQuoted, singleQuoted)
                  ELSE ParseFrom(line, i + 1, args, buf, TRUE,
                                 doubleQuoted, singleQuoted)
             ELSE IF IsSpace(r)
             THEN IF singleQuoted \/ doubleQuoted
                  THEN ParseFrom(line, i + 1, args, Append(buf, r), FALSE,
                                 doubleQuoted, singleQuoted)
                  ELSE IF buf # <<>>
                  THEN ParseFrom(line, i + 1, Append(args, buf), <<>>, FALSE,
                                 doubleQuoted, singleQuoted)
                  ELSE ParseFrom(line, i + 1, args, buf, FALSE,
                                 doubleQuoted, singleQuoted)
             ELSE IF r = "\"" /\ ~singleQuoted
             THEN ParseFrom(line, i + 1, args, buf, FALSE,
                            ~doubleQuoted, singleQuoted)
             ELSE IF r = "'" /\ ~doubleQuoted
             THEN ParseFrom(line, i + 1, args, buf, FALSE,
                            doubleQuoted, ~singleQuoted)
             ELSE ParseFrom(line, i + 1, args, Append(buf, r), FALSE,
                            doubleQuoted, singleQuoted)

ShellwordsParse(line) == ParseFrom(line, 1, <<>>, <<>>, FALSE, FALSE, FALSE)

-----------------------------------------------------------------------------
(* updateConfig                                                            *)

\* strings.SplitN(s, "=", 2): the index of the first "=", 0 when none.
RECURSIVE IndexOfEq(_, _)
IndexOfEq(s, i) ==
    IF i > Len(s) THEN 0
    ELSE IF s[i] = "=" THEN i
    ELSE IndexOfEq(s, i + 1)

SplitN2(s) ==
    LET i == IndexOfEq(s, 1)
    IN  IF i = 0 THEN <<s>>
        ELSE <<SubSeq(s, 1, i - 1), SubSeq(s, i + 1, Len(s))>>

MapSet(m, k, v) == [x \in DOMAIN m \cup {k} |-> IF x = k THEN v ELSE m[x]]
MapDelete(m, k) == [x \in DOMAIN m \ {k} |-> m[x]]

\* One turn of the loop over the label (annotation) specifications.
ApplySpecNoDelete(m, spec) ==
    LET label == SplitN2(spec)
    IN  IF Len(label) > 1 THEN MapSet(m, label[1], label[2])
        ELSE MapSet(m, label[1], <<>>)

ApplySpec(m, spec) ==
    LET label == SplitN2(spec)
    IN  IF Len(label) > 1 THEN MapSet(m, label[1], label[2])
        ELSE MapDelete(m, label[1])

RECURSIVE ApplySpecs(_, _)
ApplySpecs(m, specs) ==
    IF specs = <<>> THEN m
    ELSE ApplySpecs(ApplySpec(m, Head(specs)), Tail(specs))

\* builder.Env = append(builder.Env, envSpec), for each of the specs.
AppendReplacing(old, specs) == specs

AppendAll(old, specs) == old \o specs

\* builder.Expose[portSpec] = struct{}{}, for each of the specs.
ExposeAll(m, specs) ==
    LET ports == {specs[i] : i \in DOMAIN specs}
    IN  [x \in DOMAIN m \cup ports |-> IF x \in ports THEN "struct{}" ELSE m[x]]

\* The entrypoint (cmd) branch: a string that does not tokenize is logged
\* and the field is left as it was.
SetWordsIgnoringError(old, line) == ShellwordsParse(line).args

SetWords(old, line) ==
    LET p == ShellwordsParse(line)
    IN  IF p.err THEN old ELSE p.args

\* The reference fields updateConfig leaves non-nil: a map it makes, a
\* slice it appends to, the token slice of a successful parse.
MadeNonNil(c) ==
    {f \in {"Expose", "Labels", "Annotations"} :
        \/ f = "Expose" /\ IsSet(c, "port")
        \/ f = "Labels" /\ IsSet(c, "label")
        \/ f = "Annotations" /\ IsSet(c, "annotation")}
    \cup {f \in {"Env", "Volumes"} :
        \/ f = "Env" /\ IsSet(c, "env") /\ c.val["env"] # <<>>
        \/ f = "Volumes" /\ IsSet(c, "volume") /\ c.val["volume"] # <<>>}
    \cup {f \in {"Entrypoint", "Cmd"} :
        \/ f = "Entrypoint" /\ IsSet(c, "entrypoint")
                            /\ ~ShellwordsParse(c.val["entrypoint"]).err
        \/ f = "Cmd" /\ IsSet(c, "cmd") /\ ~ShellwordsParse(c.val["cmd"]).err}

updateConfig(b, c) ==
    [b EXCEPT
        !.Maintainer = IF IsSet(c, "author") THEN c.val["author"] ELSE @,
        !.CreatedBy = IF IsSet(c, "created-by") THEN c.val["created-by"] ELSE @,
        !.Architecture = IF IsSet(c, "arch") THEN c.val["arch"] ELSE @,
        !.OS = IF IsSet(c, "os") THEN c.val["os"] ELSE @,
        !.User = IF IsSet(c, "user") THEN c.val["user"] ELSE @,
        !.Expose = IF IsSet(c, "port") THEN ExposeAll(@, c.val["port"]) ELSE @,
        !.Env = IF IsSet(c, "env") THEN AppendAll(@, c.val["env"]) ELSE @,
        !.Entrypoint = IF IsSet(c, "entrypoint")
                       THEN SetWords(@, c.val["entrypoint"]) ELSE @,
        !.Cmd = IF IsSet(c, "cmd") THEN SetWords(@, c.val["cmd"]) ELSE @,
        !.Volumes = IF IsSet(c, "volume") THEN AppendAll(@, c.val["volume"]) ELSE @,
        !.Labels = IF IsSet(c, "label") THEN ApplySpecs(@, c.val["label"]) ELSE @,
        !.Workdir = IF IsSet(c, "workingdir") THEN c.val["workingdir"] ELSE @,
        !.Annotations = IF IsSet(c, "annotation")
                        THEN ApplySpecs(@, c.val["annotation"]) ELSE @,
        !.nils = @ \ MadeNonNil(c)]

-----------------------------------------------------------------------------
(* configCmd                                                               *)

\* The --name, --root and --link of a command line.
Target(name, root, link) == [name |-> name, root |-> root, link |-> link]
NoTarget == Target(<<>>, <<>>, <<>>)

\* openBuilder picks the Resolver's lookup: by name when a name is given,
\* else by path (the root, else the link).
openBuilder(fs, md, t) ==
    IF t.name # <<>> THEN OpenBuilder(fs, t.name)
    ELSE IF t.root # <<>> THEN OpenBuilderByPath(md, t.root, {})
    ELSE OpenBuilderByPath(md, t.link, {})

\* configCmd from where it holds the updated Builder u: Save.
configSaved(s, o, u) ==
    [err |-> s.err, opened |-> o.b, b |-> Ptr(u), files |-> s.files,
     meta |-> s.meta]

\* configCmd from where openBuilder returned o.
configOpened(o, fs, md, c, writeFails) ==
    IF o.err = "panic"
    THEN [err |-> "panic", opened |-> NilBuilder, b |-> NilBuilder,
          files |-> fs, meta |-> md]
    ELSE IF o.err # "nil"
    THEN [err |-> "OpenError", opened |-> NilBuilder, b |-> NilBuilder,
          files |-> fs, meta |-> md]
    ELSE configSaved(Save(fs, md, updateConfig(o.b.v, c), writeFails), o,
                     updateConfig(o.b.v, c))

\* configCmd: the error it returns, the Builder it opened, the Builder it
\* saved, and the files.
configCmd(fs, md, t, c, writeFails) ==
    IF t = NoTarget
    THEN [err |-> "NoTargetError", opened |-> NilBuilder, b |-> NilBuilder,
          files |-> fs, meta |-> md]
    ELSE configOpened(openBuilder(fs, md, t), fs, md, c, writeFails)

-----------------------------------------------------------------------------
(* Actions                                                                 *)

NoContext == Context(<<>>)

NoFiles == [id \in ContainerIDs |-> Absent]
NoMetadata == [id \in ContainerIDs |-> JInvalid]

\* The record of a call: its arguments, the Builder it started from (for
\* configCmd the one it opened), the state files before it and how the call
\* before it ended; n counts the updates made so far.
Called(op, t, c) ==
    [op |-> op, target |-> t, ctx |-> c, before |-> builder,
     old |-> IF op = "Save" THEN files ELSE NoFiles,
     prevOp |-> call.op, prevErr |-> ret,
     n |-> IF op \in {"updateConfig", "configCmd"} THEN call.n + 1 ELSE call.n]

DoOpenBuilder(container) ==
    LET r == OpenBuilder(files, container)
    IN  /\ builder' = r.b
        /\ ret' = r.err
        /\ call' = Called("OpenBuilder", Target(container, <<>>, <<>>), NoContext)
        /\ UNCHANGED <<files, meta, tmp, pc, seen>>

DoOpenBuilderByPath(path, failing) ==
    LET r == OpenBuilderByPath(meta, path, failing)
    IN  /\ builder' = r.b
        /\ ret' = r.err
        /\ call' = Called("OpenBuilderByPath", Target(<<>>, path, <<>>), NoContext)
        /\ UNCHANGED <<files, meta, tmp, pc, seen>>

DoUpdateConfig(c) ==
    /\ ~builder.isnil
    /\ builder' = Ptr(updateConfig(builder.v, c))
    /\ ret' = "nil"
    /\ call' = Called("updateConfig", NoTarget, c)
    /\ UNCHANGED <<files, meta, tmp, pc, seen>>

DoSave(writeFails) ==
    /\ ~builder.isnil
    /\ pc = "idle"
    /\ LET s == Save(files, meta, builder.v, writeFails)
       IN  /\ files' = s.files
           /\ meta' = s.meta
           /\ ret' = s.err
    /\ call' = Called("Save", NoTarget, NoContext)
    /\ UNCHANGED <<builder, tmp, pc, seen>>

ConfigCmdReturned(r, t, c) ==
    /\ files' = r.files
    /\ meta' = r.meta
    /\ builder' = r.b
    /\ ret' = r.err
    /\ call' = [Called("configCmd", t, c) EXCEPT !.before = r.opened]
    /\ UNCHANGED <<tmp, pc, seen>>

DoConfigCmd(t, c, writeFails) ==
    /\ pc = "idle"
    /\ ConfigCmdReturned(configCmd(files, meta, t, c, writeFails), t, c)

-----------------------------------------------------------------------------
(* Builder records and the states the specifications start from            *)

MountP == <<"/", "m1">>
MountQ == <<"/", "m2">>
LinkL == <<"/", "l1">>

\* A build container made from scratch, not mounted.
Scratch(id) ==
    [ZeroBuilder EXCEPT !.Type = containerType, !.ContainerID = <<id>>,
                        !.Container = <<ContainerNames[id]>>]

\* A build container with every field set.
Full(id) ==
    [Scratch(id) EXCEPT
        !.FromImage = <<"img">>, !.Config = <<"{", "}">>, !.Manifest = <<"m">>,
        !.MountPoint = MountP, !.Mounts = <<MountQ, MountP>>, !.Links = <<LinkL>>,
        !.Annotations = [k \in {<<"k">>} |-> <<"v">>],
        !.CreatedBy = <<"x">>, !.OS = <<"linux">>, !.Architecture = <<"amd64">>,
        !.Maintainer = <<"me">>, !.User = <<"u">>, !.Workdir = <<"/", "w">>,
        !.Env = <<<<"F", "=", "1">>>>, !.Cmd = <<<<"sh">>>>,
        !.Entrypoint = <<<<"e">>, <<"-", "c">>>>,
        !.Expose = [k \in {<<"80">>} |-> "struct{}"],
        !.Labels = [k \in {<<"b">>, <<"c">>} |->
                        IF k = <<"b">> THEN <<"x">> ELSE <<"y">>],
        !.Volumes = <<<<"/", "v">>>>,
        !.Arg = [k \in {<<"A">>} |-> <<"1">>],
        !.nils = {}]

SomeStrings == {<<>>, <<"a">>, <<BadByte>>, <<ReplRune>>, <<"a", "=", "b">>}
SomeSlices ==
    {<<>>, <<<<"a">>>>, <<<<"a">>, <<"a">>>>, <<<<"a">>, <<"b">>>>,
     <<<<"b">>, <<"a">>>>, <<<<>>>>, <<<<BadByte>>, <<"a">>>>}
SomeMaps ==
    {<<>>,
     [k \in {<<"a">>} |-> <<"1">>],
     [k \in {<<"a">>} |-> <<>>],
     [k \in {<<"a">>, <<"b">>} |-> k],
     [k \in {<<"a">>} |-> <<BadByte>>],
     [k \in {<<BadByte>>, <<ReplRune>>} |-> k \o <<"v">>]}
SomeExposes ==
    {<<>>,
     [k \in {<<"80">>} |-> "struct{}"],
     [k \in {<<"80">>, <<"443">>} |->
        IF k = <<"80">> THEN "struct{}" ELSE "map[string]interface{}"],
     [k \in {<<BadByte>>} |-> "struct{}"]}
SomeBytes == {<<>>, <<"k">>, <<BadByte, "k">>}
SomeContainers == {<<"c1">>, <<"c2">>, <<"name-c3">>, <<"zz">>, <<>>}

FieldValues(f) ==
    IF f = "ContainerID" THEN SomeContainers
    ELSE IF f \in BytesFields THEN SomeBytes
    ELSE IF f \in SliceFields THEN SomeSlices
    ELSE IF f \in MapFields THEN SomeMaps
    ELSE IF f \in ExposeFields THEN SomeExposes
    ELSE SomeStrings

\* The empty reference fields are nil (as after a decode) or all made.
WithNils(r, asDecoded) ==
    [r EXCEPT !.nils = IF asDecoded THEN {f \in RefFields : IsEmpty(r[f])}
                       ELSE {}]

\* Records of the fixed type that differ from a scratch or a full one in
\* one field.
CodecRecords ==
    UNION {{WithNils([t EXCEPT ![f] = v], d) :
                t \in {Scratch("c1"), Full("c1")}, v \in FieldValues(f),
                d \in BOOLEAN} : f \in OmitEmptyFields}

NoCall ==
    [op |-> "none", target |-> NoTarget, ctx |-> NoContext, before |-> NilBuilder,
     old |-> NoFiles, prevOp |-> "none", prevErr |-> "nil", n |-> 0]

InitCodec ==
    /\ files = NoFiles
    /\ meta = NoMetadata
    /\ tmp = NoFiles
    /\ builder \in {Ptr(r) : r \in CodecRecords}
    /\ ret = "nil"
    /\ call = NoCall
    /\ pc = "idle"
    /\ seen = Absent

NextCodec ==
    \/ \E writeFails \in BOOLEAN : DoSave(writeFails)
    \/ \E container \in SomeContainers \ {<<>>} : DoOpenBuilder(container)

SpecCodec == InitCodec /\ [][NextCodec]_vars

\* The fields json persists, compared as values: strings, byte strings and
\* sequences element by element, maps by keys and values, Expose by its keys.
SameFields(a, b) ==
    /\ \A f \in Fields \ ExposeFields : a[f] = b[f]
    /\ DOMAIN a.Expose = DOMAIN b.Expose

\* Every string of the record (the byte strings Config and Manifest aside)
\* is valid UTF-8.
TextIsUTF8(b) ==
    /\ \A f \in StringFields : ValidUTF8(b[f])
    /\ \A f \in SliceFields : \A i \in DOMAIN b[f] : ValidUTF8(b[f][i])
    /\ \A f \in MapFields :
          \A k \in DOMAIN b[f] : ValidUTF8(k) /\ ValidUTF8(b[f][k])
    /\ \A k \in DOMAIN b.Expose : ValidUTF8(k)

\* A Save that returned nil, then OpenBuilder with the saved ContainerID.
SavedThenOpened ==
    /\ call.op = "OpenBuilder"
    /\ call.prevOp = "Save"
    /\ call.prevErr = "nil"
    /\ call.target.name = call.before.v.ContainerID

\* C1 as stated: Save then OpenBuilder on the same ContainerID returns a
\* record equal to the saved one in every persisted field, for every record
\* of the fixed type.
C1_RoundTripAnyRecord ==
    SavedThenOpened => ret = "nil" /\ SameFields(builder.v, call.before.v)

\* C1, amended: Save then OpenBuilder on the same ContainerID returns a
\* record equal to the saved one in every persisted field, for every record
\* of the fixed type whose strings are valid UTF-8.
C1_RoundTrip ==
    SavedThenOpened /\ TextIsUTF8(call.before.v)
        => ret = "nil" /\ SameFields(builder.v, call.before.v)

\* A full record with a duplicated Env entry and nil and empty fields went
\* through Save and OpenBuilder.
C1_Witness ==
    /\ SavedThenOpened
    /\ TextIsUTF8(call.before.v)
    /\ ret = "nil"
    /\ call.before.v.Env = <<<<"a">>, <<"a">>>>
    /\ call.before.v.Labels # <<>>

-----------------------------------------------------------------------------
(* The Resolver over a Store that also holds containers of other tools     *)

\* A valid record of container id that is mounted at mp.
Mounted(id, mp, mounts, links) ==
    [Scratch(id) EXCEPT !.MountPoint = mp, !.Mounts = mounts, !.Links = links,
                        !.OS = <<"linux">>]

WithMember(j, k, x) ==
    JObject([m \in DOMAIN j.v \cup {k} |-> IF m = k THEN x ELSE j.v[m]])
WithoutMember(j, k) == JObject([m \in DOMAIN j.v \ {k} |-> j.v[m]])

BlobKinds ==
    {"invalid", "null", "typeerror", "notype", "foreign", "mountpoint", "mounts",
     "links", "elsewhere"}

\* What a container's metadata (or state file) may hold: bytes that are not
\* JSON, the JSON null, an object whose type is a number, a record without
\* type or of another tool's type at MountP, and valid records that have
\* MountP as MountPoint, among Mounts, among Links, or nowhere.
BlobOf(id, kind) ==
    CASE kind = "invalid" -> JInvalid
      [] kind = "null" -> JNull
      [] kind = "typeerror" ->
            WithMember(Marshal(Mounted(id, MountP, <<MountP>>, <<>>)), "type", JNumber)
      [] kind = "notype" ->
            WithoutMember(Marshal(Mounted(id, MountP, <<MountP>>, <<>>)), "type")
      [] kind = "foreign" ->
            Marshal([Mounted(id, MountP, <<MountP>>, <<>>) EXCEPT !.Type = <<"other", " 1.0">>])
      [] kind = "mountpoint" -> Marshal(Mounted(id, MountP, <<>>, <<>>))
      [] kind = "mounts" -> Marshal(Mounted(id, MountQ, <<MountQ, MountP>>, <<>>))
      [] kind = "links" -> Marshal(Mounted(id, MountQ, <<MountQ>>, <<LinkL, MountP>>))
      [] kind = "elsewhere" -> Marshal(Mounted(id, MountQ, <<MountQ>>, <<LinkL>>))
      [] OTHER -> Absent

SomePaths == {MountP, <<"m1">>, MountQ, LinkL, <<"/", "none">>}
SomeFailures == {{}, {"c2"}}

\* OpenBuilder reads the state files only and OpenBuilderByPath the metadata
\* only: the Stores vary the one or the other.
InitResolve ==
    /\ \E k \in [ContainerIDs -> BlobKinds], kf \in BlobKinds \cup {"absent"} :
          /\ kf = "mountpoint" \/ \A id \in ContainerIDs : k[id] = "invalid"
          /\ meta = [id \in ContainerIDs |-> BlobOf(id, k[id])]
          /\ files = [id \in ContainerIDs |->
                        IF id = "c1" THEN BlobOf(id, kf) ELSE Absent]
    /\ tmp = NoFiles
    /\ builder = NilBuilder
    /\ ret = "nil"
    /\ call = NoCall
    /\ pc = "idle"
    /\ seen = Absent

\* One lookup against each Store: the lookups change nothing in it.
ResolveByName ==
    /\ call.op = "none"
    /\ \E container \in SomeContainers : DoOpenBuilder(container)

ResolveByPath ==
    /\ call.op = "none"
    /\ \E path \in SomePaths, failing \in SomeFailures :
          DoOpenBuilderByPath(path, failing)

NextResolve == ResolveByName \/ ResolveByPath

SpecResolve == InitResolve /\ [][NextResolve]_vars

\* The record container number i holds, when its metadata is one.
HoldsRecord(i) ==
    /\ meta[Containers[i]].t = "object"
    /\ ~Unmarshal(meta[Containers[i]]).err
RecordOf(i) == Unmarshal(meta[Containers[i]]).b

Range(q) == {q[i] : i \in DOMAIN q}
HasPath(b, p) == b.MountPoint = p \/ p \in Range(b.Mounts) \/ p \in Range(b.Links)

\* The containers whose record is a Builder record that has path p.
BuildersAt(p) ==
    {i \in DOMAIN Containers :
        HoldsRecord(i) /\ RecordOf(i).Type = containerType /\ HasPath(RecordOf(i), p)}

\* OpenBuilderByPath returned, and not with a failure of the Store.
LookedUpByPath == call.op = "OpenBuilderByPath" /\ ret # "GetMetadataError"

\* C3: in a Store whose containers all hold records, when exactly one Builder
\* record has the absolute form of the path (as MountPoint, in Mounts or in
\* Links) OpenBuilderByPath returns that record, and when none has it the
\* call returns storage.ErrContainerUnknown and no record.
C3_PathResolution ==
    LookedUpByPath /\ (\A i \in DOMAIN Containers : HoldsRecord(i)) =>
        LET at == BuildersAt(Abs(call.target.root))
        IN  /\ Cardinality(at) = 1 =>
                ret = "nil" /\ \A i \in at : builder = Ptr(RecordOf(i))
            /\ at = {} => ret = "ErrContainerUnknown" /\ builder.isnil

\* The second of three records is the only one at the path, which it has
\* among its Links, and the path was given in relative form.
C3_Witness ==
    /\ LookedUpByPath
    /\ \A i \in DOMAIN Containers : HoldsRecord(i)
    /\ BuildersAt(MountP) = {2}
    /\ RecordOf(2).MountPoint # MountP
    /\ MountP \notin Range(RecordOf(2).Mounts)
    /\ call.target.root = <<"m1">>
    /\ ret = "nil"

\* The state file of the container OpenBuilder was asked for.
OpenedFile == files[CHOOSE id \in Lookup(call.target.name) : TRUE]

\* C4: when the state file decodes to a record whose Type is not
\* containerType (or is missing) OpenBuilder returns an error and no record,
\* and a record returned by OpenBuilder or OpenBuilderByPath has Type
\* containerType.
C4_TypeTag ==
    /\ /\ call.op = "OpenBuilder"
       /\ Lookup(call.target.name) # {}
       /\ OpenedFile.t = "object"
       /\ ~Unmarshal(OpenedFile).err
       /\ Unmarshal(OpenedFile).b.Type # containerType
       => ret \notin {"nil", "panic"} /\ builder.isnil
    /\ call.op \in {"OpenBuilder", "OpenBuilderByPath"} /\ ~builder.isnil
       => ret = "nil" /\ builder.v.Type = containerType

\* OpenBuilder was called on a state file that holds a record without type.
C4_Witness ==
    /\ call.op = "OpenBuilder"
    /\ Lookup(call.target.name) # {}
    /\ OpenedFile.t = "object"
    /\ "type" \notin DOMAIN OpenedFile.v
    /\ "mountpoint" \in DOMAIN OpenedFile.v
    /\ ret = "NotBuildahContainer"

\* The first container, in enumeration order, whose metadata decodes to a
\* Builder record that has path p; 0 when there is none.
FirstBuilderAt(p) ==
    IF BuildersAt(p) = {} THEN 0
    ELSE CHOOSE i \in BuildersAt(p) : \A j \in BuildersAt(p) : i <= j

\* C8: the result of OpenBuilderByPath is the first container, in the
\* Store's enumeration order, whose metadata decodes, carries containerType
\* and matches the path, whatever the metadata of the containers before it.
C8_FirstMatchWins ==
    LookedUpByPath /\ FirstBuilderAt(Abs(call.target.root)) # 0 =>
        /\ ret = "nil"
        /\ builder = Ptr(RecordOf(FirstBuilderAt(Abs(call.target.root))))

-----------------------------------------------------------------------------
(* The Config Mutator on its own                                           *)

MaxCalls == 2

LabelA1 == <<"a", "=", "1">>
EnvF1 == <<"F", "=", "1">>

\* Command lines that give one flag.
OneFlag ==
    {"author" :> <<"m", "e">>, "author" :> <<>>, "created-by" :> <<"s">>,
     "arch" :> <<"arm">>, "os" :> <<"bsd">>, "user" :> <<"root">>,
     "workingdir" :> <<"/", "w2">>,
     "port" :> <<<<"80">>, <<"53">>>>,
     "env" :> <<EnvF1>>, "env" :> <<EnvF1, EnvF1>>, "env" :> <<<<"G">>>>,
     "volume" :> <<<<"/", "v">>>>, "volume" :> <<<<"/", "v">>, <<"/", "v">>>>,
     "entrypoint" :> <<"a", " ", "b">>, "entrypoint" :> <<"\"", "a">>,
     "entrypoint" :> <<>>,
     "cmd" :> <<"'", "a", " ", "b", "'">>, "cmd" :> <<"a", "\\">>,
     "label" :> <<LabelA1, <<"b">>>>, "label" :> <<<<"a", "=">>>>,
     "label" :> <<<<"a", "=", "1", "=", "x">>>>, "label" :> <<<<"z">>>>,
     "label" :> <<<<"b", "=", "2">>, <<"b">>>>,
     "label" :> <<<<"c">>, <<"c", "=", "2">>>>,
     "annotation" :> <<<<"k", "=", "2">>, <<"n", "=">>>>,
     "annotation" :> <<<<"k">>>>}

\* Command lines that give several flags.
SeveralFlags ==
    {("os" :> <<"linux">>) @@ ("arch" :> <<"amd64">>) @@ ("label" :> <<LabelA1>>),
     ("entrypoint" :> <<"\"">>) @@ ("env" :> <<EnvF1>>) @@ ("author" :> <<"me">>)
        @@ ("cmd" :> <<"c">>),
     ("cmd" :> <<"'">>) @@ ("entrypoint" :> <<"e">>) @@ ("volume" :> <<<<"v">>>>)
        @@ ("annotation" :> <<<<"k">>>>) @@ ("port" :> <<<<"80">>>>)}

SomeContexts == {Context(g) : g \in OneFlag \cup SeveralFlags}

InitConfig ==
    /\ files = NoFiles
    /\ meta = NoMetadata
    /\ tmp = NoFiles
    /\ builder \in {Ptr(Scratch("c1")), Ptr(Full("c1"))}
    /\ ret = "nil"
    /\ call = NoCall
    /\ pc = "idle"
    /\ seen = Absent

ConfigUpdate ==
    /\ call.n < MaxCalls
    /\ \E c \in SomeContexts : DoUpdateConfig(c)

NextConfig == ConfigUpdate

SpecConfig == InitConfig /\ [][NextConfig]_vars

Updated == call.op = "updateConfig"
Old == call.before.v
New == builder.v

\* A label specification read as the claim reads it: the key before the
\* first "=", the value after it, or a bare key.
HasValue(spec) == \E i \in DOMAIN spec : spec[i] = "="
FirstEq(spec) ==
    CHOOSE i \in DOMAIN spec : spec[i] = "=" /\ \A j \in 1..(i - 1) : spec[j] # "="
KeyOf(spec) == IF HasValue(spec) THEN SubSeq(spec, 1, FirstEq(spec) - 1) ELSE spec
ValueOf(spec) == SubSeq(spec, FirstEq(spec) + 1, Len(spec))

\* The entries of specs that name key k, and the last of them.
Naming(specs, k) == {i \in DOMAIN specs : KeyOf(specs[i]) = k}
LastNaming(specs, k) ==
    CHOOSE i \in Naming(specs, k) : \A j \in Naming(specs, k) : j <= i

\* Map new is map old with the specs applied in order.
SpecsApplied(old, new, specs) ==
    \A k \in DOMAIN old \cup DOMAIN new \cup {KeyOf(specs[i]) : i \in DOMAIN specs} :
        IF Naming(specs, k) = {}
        THEN (k \in DOMAIN new <=> k \in DOMAIN old)
             /\ (k \in DOMAIN old => new[k] = old[k])
        ELSE LET spec == specs[LastNaming(specs, k)]
             IN  IF HasValue(spec)
                 THEN k \in DOMAIN new /\ new[k] = ValueOf(spec)
                 ELSE k \notin DOMAIN new

\* C5: a provided label (annotation) update is applied entry by entry: an
\* entry with "=" sets its key to the text after the first "=", a bare key is
\* removed, and every key no entry names keeps its value.
C5_LabelSemantics ==
    /\ Updated /\ "label" \in call.ctx.set
       => SpecsApplied(Old.Labels, New.Labels, call.ctx.val["label"])
    /\ Updated /\ "annotation" \in call.ctx.set
       => SpecsApplied(Old.Annotations, New.Annotations, call.ctx.val["annotation"])

\* ["a=1", "b"] was applied to Labels {b: "x", c: "y"} and left {a: "1",
\* c: "y"}.
C5_Witness ==
    /\ Updated
    /\ "label" \in call.ctx.set
    /\ call.ctx.val["label"] = <<LabelA1, <<"b">>>>
    /\ Old.Labels = [k \in {<<"b">>, <<"c">>} |-> IF k = <<"b">> THEN <<"x">> ELSE <<"y">>]
    /\ New.Labels = [k \in {<<"a">>, <<"c">>} |-> IF k = <<"a">> THEN <<"1">> ELSE <<"y">>]

\* Sequence new is sequence old followed by the values.
Appended(old, new, values) ==
    /\ Len(new) = Len(old) + Len(values)
    /\ \A i \in DOMAIN old : new[i] = old[i]
    /\ \A i \in DOMAIN values : new[Len(old) + i] = values[i]

\* C6: a provided env (volume) update keeps the existing Env (Volumes) as a
\* prefix and appends the given values in order, duplicates included.
C6_AppendSemantics ==
    /\ Updated /\ "env" \in call.ctx.set
       => Appended(Old.Env, New.Env, call.ctx.val["env"])
    /\ Updated /\ "volume" \in call.ctx.set
       => Appended(Old.Volumes, New.Volumes, call.ctx.val["volume"])

\* The same env value was given in two successive updates and is in Env
\* twice.
C6_Witness ==
    /\ Updated
    /\ call.prevOp = "updateConfig"
    /\ call.ctx.set = {"env"}
    /\ call.ctx.val["env"] = <<EnvF1>>
    /\ Old.Env = <<EnvF1>>
    /\ New.Env = <<EnvF1, EnvF1>>

\* The flag that updates each field; the other fields have none.
FlagOf ==
    [f \in {"Maintainer", "CreatedBy", "Architecture", "OS", "User", "Expose",
            "Env", "Entrypoint", "Cmd", "Volumes", "Labels", "Workdir",
            "Annotations"} |->
        CASE f = "Maintainer" -> "author"
          [] f = "CreatedBy" -> "created-by"
          [] f = "Architecture" -> "arch"
          [] f = "OS" -> "os"
          [] f = "User" -> "user"
          [] f = "Expose" -> "port"
          [] f = "Env" -> "env"
          [] f = "Entrypoint" -> "entrypoint"
          [] f = "Cmd" -> "cmd"
          [] f = "Volumes" -> "volume"
          [] f = "Labels" -> "label"
          [] f = "Workdir" -> "workingdir"
          [] f = "Annotations" -> "annotation"]

\* C7: updateConfig changes a field only if the flag that updates it was
\* given; every other field, CreatedBy among them, and the identity fields
\* Type, ContainerID, Container, FromImage, Config, Manifest, MountPoint,
\* Mounts, Links and Arg keep their value.
C7_Frame ==
    Updated =>
        \A f \in Fields :
            New[f] # Old[f] => f \in DOMAIN FlagOf /\ FlagOf[f] \in call.ctx.set

\* An update that gave only --author changed Maintainer and left a
\* CreatedBy that is not the flag's default.
C7_Witness ==
    /\ Updated
    /\ call.ctx.set = {"author"}
    /\ New.Maintainer # Old.Maintainer
    /\ New.CreatedBy = <<"x">>
    /\ call.ctx.val["created-by"] = DefaultCreatedBy

-----------------------------------------------------------------------------
(* Save step by step: ioutils.AtomicWriteFile beside a reader and a crash  *)

\* A file that holds only the first part of the bytes written to it.
Truncated == [t |-> "truncated", v |-> <<>>]
\* The reader has not read yet.
Unread == [t |-> "unread", v |-> <<>>]

\* Where AtomicWriteFile puts the bytes: into a temporary file beside the
\* state file.
WriteInPlace(fs, tf, id, content) ==
    [files |-> [fs EXCEPT ![id] = content], tmp |-> tf]

WriteTemp(fs, tf, id, content) ==
    [files |-> fs, tmp |-> [tf EXCEPT ![id] = content]]

\* The container directory Save writes into.
SaveID == CHOOSE id \in Lookup(builder.v.ContainerID) : TRUE

\* json.Marshal, GetContainerDirectory, then the temporary file is created.
SaveBegin ==
    /\ pc = "idle"
    /\ ~builder.isnil
    /\ call' = Called("Save", NoTarget, NoContext)
    /\ seen' = Unread
    /\ IF Lookup(builder.v.ContainerID) = {}
       THEN /\ ret' = "ErrContainerUnknown"
            /\ UNCHANGED <<files, meta, tmp, builder, pc>>
       ELSE LET w == WriteTemp(files, tmp, SaveID, Truncated)
            IN  /\ files' = w.files
                /\ tmp' = w.tmp
                /\ pc' = "created"
                /\ ret' = "nil"
                /\ UNCHANGED <<meta, builder>>

\* f.Write: the bytes reach the file in one piece or in two.
SaveWrite ==
    /\ pc \in {"created", "partial"}
    /\ \E whole \in BOOLEAN :
          /\ whole \/ pc = "created"
          /\ LET w == WriteTemp(files, tmp, SaveID,
                                IF whole THEN Marshal(builder.v) ELSE Truncated)
             IN  /\ files' = w.files
                 /\ tmp' = w.tmp
          /\ pc' = IF whole THEN "written" ELSE "partial"
    /\ UNCHANGED <<meta, builder, ret, call, seen>>

\* The write, the sync, the close or the chmod fails: the temporary file is
\* removed and Save returns the error.
SaveFails ==
    /\ pc \in {"created", "partial", "written"}
    /\ tmp' = [tmp EXCEPT ![SaveID] = Absent]
    /\ pc' = "idle"
    /\ ret' = "WriteError"
    /\ UNCHANGED <<files, meta, builder, call, seen>>

\* f.Close: os.Rename of the temporary file onto the state file.
SaveRename ==
    /\ pc = "written"
    /\ files' = [files EXCEPT ![SaveID] = tmp[SaveID]]
    /\ tmp' = [tmp EXCEPT ![SaveID] = Absent]
    /\ pc' = "renamed"
    /\ UNCHANGED <<meta, builder, ret, call, seen>>

SaveReturn ==
    /\ pc = "renamed"
    /\ pc' = "idle"
    /\ ret' = "nil"
    /\ UNCHANGED <<files, meta, tmp, builder, call, seen>>

\* The process dies inside Save; ret keeps the step it died at.
Crash ==
    /\ pc \notin {"idle", "crashed"}
    /\ pc' = "crashed"
    /\ ret' = pc
    /\ UNCHANGED <<files, meta, tmp, builder, call, seen>>

\* Another process reads the state file (ioutil.ReadFile in OpenBuilder).
ReadState ==
    /\ call.op = "Save"
    /\ Lookup(builder.v.ContainerID) # {}
    /\ seen' = files[SaveID]
    /\ seen' # seen
    /\ UNCHANGED <<files, meta, tmp, builder, ret, call, pc>>

InitAtomic ==
    /\ \E first \in BOOLEAN :
          files = [id \in ContainerIDs |->
                      IF id = "c1" /\ ~first THEN Marshal(Full("c1")) ELSE Absent]
    /\ meta = NoMetadata
    /\ tmp = NoFiles
    /\ builder \in {Ptr(updateConfig(Full("c1"), c)) : c \in SomeContexts}
                   \cup {Ptr([Scratch("c1") EXCEPT !.ContainerID = <<"zz">>])}
    /\ ret = "nil"
    /\ call = NoCall
    /\ pc = "idle"
    /\ seen = Unread

NextAtomic ==
    \/ SaveBegin
    \/ SaveWrite
    \/ SaveFails
    \/ SaveRename
    \/ SaveReturn
    \/ Crash
    \/ ReadState

SpecAtomic == InitAtomic /\ [][NextAtomic]_vars

\* C2: while Save runs beside a reader, and after a crash at any of its
\* steps, every state file holds its complete previous content or the
\* complete new content, never a truncated one and never none where there
\* was one; so does what the reader read; and until the rename the files
\* are as they were.
C2_SaveAtomic ==
    call.op = "Save" =>
        /\ \A id \in ContainerIDs :
              files[id] = call.old[id] \/ files[id] = Marshal(builder.v)
        /\ pc \in {"created", "partial", "written"} => files = call.old
        /\ pc = "crashed" /\ ret # "renamed" => files = call.old
        /\ seen # Unread =>
              seen = call.old[SaveID] \/ seen = Marshal(builder.v)

\* Save crashed after its temporary file was written in full and before the
\* rename, over an existing state file, and the reader has read that file.
C2_Witness ==
    /\ call.op = "Save"
    /\ pc = "crashed"
    /\ ret = "written"
    /\ tmp[SaveID] = Marshal(builder.v)
    /\ call.old[SaveID] # Absent
    /\ call.old[SaveID] # Marshal(builder.v)
    /\ seen = call.old[SaveID]

-----------------------------------------------------------------------------
(* The whole: a Store with two build containers and a foreign one          *)

SomeTargets ==
    {Target(<<"c1">>, <<>>, <<>>), Target(<<>>, <<>>, LinkL), NoTarget}

FewContexts ==
    {Context(("entrypoint" :> <<"\"">>) @@ ("env" :> <<EnvF1>>)
                @@ ("author" :> <<"me">>) @@ ("cmd" :> <<"c">>)),
     Context(("cmd" :> <<"'">>) @@ ("entrypoint" :> <<"a", " ", "b">>)
                @@ ("label" :> <<LabelA1, <<"b">>>>))}

\* c1 is a build container mounted at MountP whose metadata was never set or
\* holds its first state; c2 belongs to another tool; c3 is a build
\* container mounted at MountQ with the link LinkL.
Init ==
    /\ files = [id \in ContainerIDs |->
                  CASE id = "c1" -> Marshal(Full("c1"))
                    [] id = "c2" -> Absent
                    [] id = "c3" -> BlobOf("c3", "elsewhere")]
    /\ \E set \in BOOLEAN :
          meta = [id \in ContainerIDs |->
                    CASE id = "c1" -> IF set THEN Marshal(Full("c1")) ELSE JInvalid
                      [] id = "c2" -> BlobOf("c2", "foreign")
                      [] id = "c3" -> BlobOf("c3", "elsewhere")]
    /\ tmp = NoFiles
    /\ builder = NilBuilder
    /\ ret = "nil"
    /\ call = NoCall
    /\ pc = "idle"
    /\ seen = Absent

OpenByName == \E container \in {<<"c1">>, <<"zz">>} : DoOpenBuilder(container)

OpenByPath ==
    \E path \in {MountP, LinkL}, failing \in SomeFailures :
        DoOpenBuilderByPath(path, failing)

Update ==
    /\ call.n < MaxCalls
    /\ \E c \in FewContexts : DoUpdateConfig(c)

SaveState == \E writeFails \in BOOLEAN : DoSave(writeFails)

Config ==
    /\ call.n < MaxCalls
    /\ \E t \in SomeTargets, c \in FewContexts, writeFails \in BOOLEAN :
          DoConfigCmd(t, c, writeFails)

Next == OpenByName \/ OpenByPath \/ Update \/ SaveState \/ Config

Spec == Init /\ [][Next]_vars

\* updateConfig ran: on its own, or in a configCmd that opened a Builder.
Configured ==
    \/ call.op = "updateConfig"
    \/ call.op = "configCmd" /\ ~call.before.isnil

\* Strings that are not a shell command line: an open quote, a backslash
\* with nothing after it.
Unparsable == {<<"\"">>, <<"'">>, <<"\"", "a">>, <<"a", "\\">>}

\* The words of the strings that are one.
Words ==
    (<<"a", " ", "b">> :> <<<<"a">>, <<"b">>>>)
    @@ (<<"c">> :> <<<<"c">>>>)
    @@ (<<"e">> :> <<<<"e">>>>)
    @@ (<<"'", "a", " ", "b", "'">> :> <<<<"a", " ", "b">>>>)
    @@ (<<>> :> <<>>)

WordsSet(flag, field) ==
    flag \in call.ctx.set =>
        \/ call.ctx.val[flag] \in Unparsable /\ New[field] = Old[field]
        \/ call.ctx.val[flag] \in DOMAIN Words /\ New[field] = Words[call.ctx.val[flag]]

ScalarFlags == {"author", "created-by", "arch", "os", "user", "workingdir"}
FieldOf(flag) == CHOOSE f \in DOMAIN FlagOf : FlagOf[f] = flag

\* Every provided update other than entrypoint and cmd is applied.
OthersApplied ==
    /\ \A flag \in ScalarFlags \cap call.ctx.set :
          New[FieldOf(flag)] = call.ctx.val[flag]
    /\ "env" \in call.ctx.set => Appended(Old.Env, New.Env, call.ctx.val["env"])
    /\ "volume" \in call.ctx.set =>
          Appended(Old.Volumes, New.Volumes, call.ctx.val["volume"])
    /\ "label" \in call.ctx.set =>
          SpecsApplied(Old.Labels, New.Labels, call.ctx.val["label"])
    /\ "annotation" \in call.ctx.set =>
          SpecsApplied(Old.Annotations, New.Annotations, call.ctx.val["annotation"])
    /\ "port" \in call.ctx.set =>
          DOMAIN New.Expose = DOMAIN Old.Expose \cup Range(call.ctx.val["port"])

\* C9: an entrypoint (cmd) string that does not tokenize leaves Entrypoint
\* (Cmd) as it was, one that does replaces it by its words; the other
\* provided updates of the call are applied all the same, and configCmd goes
\* on to Save: it returns what Save returns, and on nil the state file
\* holds the updated record.
C9_TokenizeFailure ==
    /\ Configured =>
          /\ WordsSet("entrypoint", "Entrypoint")
          /\ WordsSet("cmd", "Cmd")
          /\ OthersApplied
    /\ call.op = "configCmd" /\ ~call.before.isnil =>
          /\ ret \in {"nil", "WriteError", "ErrContainerUnknown"}
          /\ ret = "nil" =>
                \A id \in Lookup(New.ContainerID) : files[id] = Marshal(New)

\* configCmd was given an entrypoint with an open quote beside --env,
\* --author and --cmd: Entrypoint is as before, the rest is updated and
\* saved.
C9_Witness ==
    /\ call.op = "configCmd"
    /\ ~call.before.isnil
    /\ "entrypoint" \in call.ctx.set
    /\ call.ctx.val["entrypoint"] \in Unparsable
    /\ Old.Entrypoint # <<>>
    /\ New.Entrypoint = Old.Entrypoint
    /\ New.Env = Old.Env \o <<EnvF1>>
    /\ New.Cmd = <<<<"c">>>>
    /\ New.Cmd # Old.Cmd
    /\ ret = "nil"
    /\ files["c1"] = Marshal(New)

\* C10: after Save wrote a record that has path P, OpenBuilderByPath(P)
\* returns a record equal to the one OpenBuilder returns for that
\* ContainerID.
C10_ResolversAgree ==
    /\ call.op = "OpenBuilderByPath"
    /\ call.prevOp = "Save"
    /\ call.prevErr = "nil"
    /\ ~call.before.isnil
    /\ HasPath(call.before.v, Abs(call.target.root))
    /\ ret # "GetMetadataError"
    => /\ ret = "nil"
       /\ builder = OpenBuilder(files, call.before.v.ContainerID).b

=============================================================================
